---- MODULE Spec2Model ----
(***************************************************************************)
(* ngx_readv_chain (src/os/unix/ngx_readv_chain.c): one vectored read from *)
(* a connection into a chain of buffers.                                   *)
(*                                                                         *)
(* Two specifications share the variables:                                 *)
(*   SpecCoalesce  the coalescing loop (lines 142-187), one iteration per  *)
(*                 step, over every chain and limit within the bounds,     *)
(*                 followed by the read (lines 192-322);                   *)
(*   Spec          whole invocations of ngx_readv_chain on one connection, *)
(*                 under every event method, interleaved with the event    *)
(*                 layer's notifications.                                  *)
(***************************************************************************)
EXTENDS Integers, Sequences, FiniteSets, TLC

\* ------------------------------------------------------------------ bounds

\* Longest chain handed to the coalescing loop.
MaxChain == 3
\* Largest free region (end - last) of one buffer.
MaxBuf == 2
\* Largest limit argument (0 means no limit).
MaxLimit == 5
\* Capacity of the iovs[] array.  nginx builds with 64; the model keeps it
\* below MaxChain so that the full-vector break of line 171 is exercised.
NGX_IOVS_PREALLOCATE == 2
\* Under Spec: the longest chain a connection reads into, the largest free
\* region of one of its buffers and the largest limit of a call.
MaxConnChain == 1
MaxConnBuf == 2
MaxConnLimit == 1
\* Largest available hint the event layer reports.
MaxAvail == 2
\* Most EINTR failures of the read primitive within one invocation.
MaxIntr == 1
\* Most temporary buffers of kos_readv left allocated on the heap.
MaxHeap == 1

\* ------------------------------------------------------- program constants

NULL == 0
NGX_OK == 0
NGX_ERROR == -1
NGX_AGAIN == -2
NGX_EINTR == 4
NGX_EAGAIN == 11
NGX_EINVAL == 22
NGX_ECONNRESET == 104

\* ----------------------------------------------------------------- chains

\* A buffer is its two markers; its free region is [last, end).
Buf(last, end) == [last |-> last, end |-> end]

\* A chain laid out from a sequence of <<gap, len>> pairs: each buffer's free
\* region has len bytes and starts gap addresses after the previous buffer's
\* end (gap 0: the regions are contiguous).  The first buffer starts at 1.
RECURSIVE Layout(_, _)
Layout(shape, from) ==
    IF shape = <<>> THEN <<>>
    ELSE LET last == from + shape[1][1]
             end  == last + shape[1][2]
         IN  <<Buf(last, end)>> \o Layout(Tail(shape), end)

Shapes(maxLen, maxBuf) ==
    { s \in UNION { [1..k -> (0..1) \X (0..maxBuf)] : k \in 0..maxLen } :
        s # <<>> => s[1][1] = 0 }

ChainsUpTo(maxLen, maxBuf) == { Layout(s, 1) : s \in Shapes(maxLen, maxBuf) }

Chains == ChainsUpTo(MaxChain, MaxBuf)

RECURSIVE SumFree(_)
SumFree(ch) ==
    IF ch = <<>> THEN 0 ELSE (ch[1].end - ch[1].last) + SumFree(Tail(ch))

\* ---------------------------------------------------------------- variables

VARIABLES
    build,               \* the macros the file is compiled with
    ngx_event_flags,     \* the event module's flags
    ngx_use_epoll_rdhup,
    rev,                 \* c->read: ready, eof, error, pending_eof, available, kq_errno
    chain,               \* the buffers of the chain argument, in chain order
    limit,               \* the limit argument
    loop,                \* the locals of the coalescing loop: chain position, vec, size, prev
    pc,                  \* "idle" | "coalesce" | "readv"
    ret,                 \* <<n>> once the invocation has returned n, <<>> before
    reads,               \* calls of the read primitive made by the invocation
    res,                 \* the result of its latest call of the read primitive
    entry,               \* rev and chain as they were when the invocation began
    heap                 \* temporary buffers of kos_readv allocated and not freed

vars == <<build, ngx_event_flags, ngx_use_epoll_rdhup, rev, chain, limit, loop,
          pc, ret, reads, res, entry, heap>>

\* -------------------------------------------------------- coalescing loop

\* Lines 142-150: prev = NULL, iov = NULL, size = 0, vec empty; pos is the
\* index of the chain link the loop variable `chain` points to
\* (Len(chain) + 1: the NULL after the last link).
LoopInit == [pos |-> 1, size |-> 0, prev |-> NULL, vec |-> <<>>, exit |-> "no"]

\* Lines 155-165 without the cut of lines 162-164.
RegionLenNoCut(buf, lim, size) == buf.end - buf.last

\* Lines 155-165: the free region of the buffer, cut to what the limit leaves.
RegionLen(buf, lim, size) ==
    LET n == buf.end - buf.last
    IN  IF lim # 0 /\ size + n > lim THEN lim - size ELSE n

\* Lines 167-186 with the body of line 168 changed: the merged entry is not
\* extended.
MergeNoExtend(l, buf, n) ==
    [l EXCEPT !.size = @ + n, !.prev = buf.end, !.pos = @ + 1]

\* Lines 167-168, 184-186: the buffer starts where the previous one ended,
\* so the last entry grows by n.
Merge(l, buf, n) ==
    [l EXCEPT !.vec[Len(l.vec)].iov_len = @ + n,
              !.size = @ + n, !.prev = buf.end, !.pos = @ + 1]

\* Lines 175-186 with the entry based at the buffer's end marker.
PushBaseAtEnd(l, buf, n) ==
    [l EXCEPT !.vec = Append(@, [iov_base |-> buf.end, iov_len |-> n]),
              !.size = @ + n, !.prev = buf.end, !.pos = @ + 1]

\* Lines 175-186 with a region of length 0 given no entry: only size and
\* the adjacency tracking are updated.
PushSkipsEmpty(l, buf, n) ==
    IF n = 0 THEN [l EXCEPT !.prev = buf.end, !.pos = @ + 1]
    ELSE [l EXCEPT !.vec = Append(@, [iov_base |-> buf.last, iov_len |-> n]),
                   !.size = @ + n, !.prev = buf.end, !.pos = @ + 1]

\* Lines 175-186: a new entry (ngx_array_push cannot fail here: line 171 has
\* established nelts < nalloc, so the preallocated array has a free slot).
Push(l, buf, n) ==
    [l EXCEPT !.vec = Append(@, [iov_base |-> buf.last, iov_len |-> n]),
              !.size = @ + n, !.prev = buf.end, !.pos = @ + 1]

\* The limit test of line 158 dropped: the loop never stops on the limit.
LimitReachedNever(lim, size) == FALSE

\* Line 157-159: the loop stops once the limit has been gathered.
LimitReached(lim, size) == lim # 0 /\ size >= lim

\* The capacity test of line 171 off by one.
VecFullOffByOne(l) == Len(l.vec) = NGX_IOVS_PREALLOCATE + 1

\* Line 171: vec.nelts == vec.nalloc.
VecFull(l) == Len(l.vec) = NGX_IOVS_PREALLOCATE

\* One evaluation of the while condition and, when it holds, of the body
\* (lines 154-187).  exit records how the loop was left.
CoalesceIter(ch, lim, l) ==
    IF l.pos > Len(ch) THEN [l EXCEPT !.exit = "end"]
    ELSE LET buf == ch[l.pos]
             n   == RegionLen(buf, lim, l.size)
         IN  IF LimitReached(lim, l.size) THEN [l EXCEPT !.exit = "limit"]
             ELSE IF l.prev = buf.last THEN Merge(l, buf, n)
             ELSE IF VecFull(l) THEN [l EXCEPT !.exit = "full"]
             ELSE Push(l, buf, n)

\* The loop run to its exit.
RECURSIVE CoalesceFrom(_, _, _)
CoalesceFrom(ch, lim, l) ==
    IF l.exit # "no" THEN l ELSE CoalesceFrom(ch, lim, CoalesceIter(ch, lim, l))

Coalesce(ch, lim) == CoalesceFrom(ch, lim, LoopInit)

RECURSIVE SumLen(_)
SumLen(vec) == IF vec = <<>> THEN 0 ELSE vec[1].iov_len + SumLen(Tail(vec))

\* --------------------------------------------------- the read primitive

\* The addresses of the entries, in the order a vectored read fills them.
RECURSIVE EntryAddrs(_)
EntryAddrs(vec) ==
    IF vec = <<>> THEN <<>>
    ELSE [i \in 1..vec[1].iov_len |-> vec[1].iov_base + i - 1]
         \o EntryAddrs(Tail(vec))

Range(f) == { f[i] : i \in DOMAIN f }

Errnos == {NGX_EAGAIN, NGX_EINTR, NGX_ECONNRESET}

Ok(n, data, zero) == [n |-> n, err |-> 0, data |-> data, zero |-> zero]
Fail(err) == [n |-> -1, err |-> err, data |-> {}, zero |-> {}]

\* Line 196, readv(2): n bytes (0..size) stored at the first n addresses of
\* the entries, or -1 with errno set.
readv(vec) ==
    LET addrs == EntryAddrs(vec)
    IN  { Ok(n, { addrs[i] : i \in 1..n }, {}) : n \in 0..Len(addrs) }
        \cup { Fail(e) : e \in Errnos }

\* Lines 14-82, kos_readv: EINVAL without entries, 0 without a read for a
\* total length of 0; otherwise one read() into a zeroed temporary buffer
\* whose whole content is then copied over the entries, so the addresses
\* past the bytes read receive zeros.
kos_readv(vec) ==
    LET addrs == EntryAddrs(vec)
    IN  IF Len(vec) = 0 THEN { Fail(NGX_EINVAL) }
        ELSE IF Len(addrs) = 0 THEN { Ok(0, {}, {}) }
        ELSE { Ok(n, { addrs[i] : i \in 1..n },
                     { addrs[i] : i \in (n + 1)..Len(addrs) })
               : n \in 0..Len(addrs) }
             \cup { Fail(e) : e \in Errnos }

\* Lines 44-53, 77-78: the temporary buffers that the call of kos_readv
\* which returned got has allocated and not freed.  The returns of lines
\* 16-42 come before the malloc of line 45; a successful read reaches the
\* free of line 78; the return of line 52, after a failed read, does not.
\* malloc is taken to succeed.
kos_readv_heap(vec, got) ==
    IF Len(vec) = 0 \/ SumLen(vec) = 0 THEN 0
    ELSE IF got.n < 0 THEN 1
    ELSE 0

\* Lines 193-197.
Allocated(vec, got) == IF build.KOS THEN kos_readv_heap(vec, got) ELSE 0

\* Lines 193-197.
ReadPrimitive(vec) == IF build.KOS THEN kos_readv(vec) ELSE readv(vec)

\* ------------------------------------------------------- readiness state

UseKqueue == build.NGX_HAVE_KQUEUE /\ "NGX_USE_KQUEUE_EVENT" \in ngx_event_flags
UseEpoll  == build.NGX_HAVE_EPOLLRDHUP /\ "NGX_USE_EPOLL_EVENT" \in ngx_event_flags
UseRdhup  == UseEpoll /\ ngx_use_epoll_rdhup
Greedy    == "NGX_USE_GREEDY_EVENT" \in ngx_event_flags

Return(r, n) == [returned |-> TRUE, rev |-> r, ret |-> n]
Proceed(r) == [returned |-> FALSE, rev |-> r, ret |-> NGX_OK]

\* The kqueue gate with ready cleared on the NGX_AGAIN path as well.
KqueueGateClearsReady(r) ==
    IF r.available = 0
    THEN IF r.pending_eof
         THEN LET r1 == [r EXCEPT !.ready = FALSE, !.eof = TRUE]
              IN  IF r.kq_errno # 0
                  THEN Return([r1 EXCEPT !.error = TRUE], NGX_ERROR)
                  ELSE Return(r1, 0)
         ELSE Return([r EXCEPT !.ready = FALSE], NGX_AGAIN)
    ELSE Proceed(r)

\* The kqueue gate with a pending EOF that carries an error reported as a
\* plain end of stream.
KqueueGateDropsErrno(r) ==
    IF r.available = 0
    THEN IF r.pending_eof
         THEN Return([r EXCEPT !.ready = FALSE, !.eof = TRUE], 0)
         ELSE Return(r, NGX_AGAIN)
    ELSE Proceed(r)

\* The kqueue gate answering NGX_AGAIN for a used-up hint whether or not an
\* EOF is pending.
KqueueGateWaitsOnEof(r) ==
    IF r.available = 0 THEN Return(r, NGX_AGAIN) ELSE Proceed(r)

\* Lines 104-123: the kqueue gate.
KqueueGate(r) ==
    IF r.available = 0
    THEN IF r.pending_eof
         THEN LET r1 == [r EXCEPT !.ready = FALSE, !.eof = TRUE]
              IN  IF r.kq_errno # 0
                  THEN Return([r1 EXCEPT !.error = TRUE], NGX_ERROR)
                  ELSE Return(r1, 0)
         ELSE Return(r, NGX_AGAIN)
    ELSE Proceed(r)

\* The epoll gate answering NGX_AGAIN whatever the hint is.
EpollGateAnyHint(r) ==
    IF ~r.pending_eof THEN Return(r, NGX_AGAIN) ELSE Proceed(r)

\* Lines 135-137: the epoll gate.
EpollGate(r) ==
    IF r.available = 0 /\ ~r.pending_eof THEN Return(r, NGX_AGAIN) ELSE Proceed(r)

\* Lines 97-140.
PreRead(r) ==
    LET kq == IF UseKqueue THEN KqueueGate(r) ELSE Proceed(r)
    IN  IF kq.returned THEN kq
        ELSE IF UseEpoll THEN EpollGate(r)
        ELSE Proceed(r)

\* ngx_connection_error() logs the error and reports the connection as
\* failed.
ngx_connection_error(err) == NGX_ERROR

\* Lines 316-322 without the assignment of line 316: ready is kept.
AfterLoopKeepsReady(r, n) ==
    Return(IF n = NGX_ERROR THEN [r EXCEPT !.error = TRUE] ELSE r, n)

\* Lines 316-322: the code after the do-while loop.
AfterLoop(r, n) ==
    LET r1 == [r EXCEPT !.ready = FALSE]
    IN  Return(IF n = NGX_ERROR THEN [r1 EXCEPT !.error = TRUE] ELSE r1, n)

\* Lines 198-216 without the kqueue reset of the hint (line 211).
ReadZeroKeepsHint(r) ==
    Return([r EXCEPT !.ready = FALSE, !.eof = TRUE], 0)

\* Lines 198-216: the read primitive returned 0.
ReadZero(r) ==
    LET r1 == [r EXCEPT !.ready = FALSE, !.eof = TRUE]
    IN  Return(IF UseKqueue THEN [r1 EXCEPT !.available = 0] ELSE r1, 0)

\* Lines 222-239 with the hint zeroed whatever is left of it.
KqueueReadDropsHint(r, n) ==
    Return([r EXCEPT !.available = 0,
                     !.ready = IF r.pending_eof THEN @ ELSE FALSE], n)

\* Lines 222-239 with ready cleared whether or not an EOF is pending.
KqueueReadIgnoresPendingEof(r, n) ==
    LET a == r.available - n
    IN  IF a <= 0
        THEN Return([r EXCEPT !.available = 0, !.ready = FALSE], n)
        ELSE Return([r EXCEPT !.available = a], n)

\* Lines 222-239: n > 0 bytes under kqueue.
KqueueRead(r, n) ==
    LET a == r.available - n
    IN  IF a <= 0
        THEN Return([r EXCEPT !.available = 0,
                              !.ready = IF r.pending_eof THEN @ ELSE FALSE], n)
        ELSE Return([r EXCEPT !.available = a], n)

\* Lines 245-258 without the clamp of line 256.
FionreadKnownNoClamp(r, n) ==
    LET a == r.available - n
    IN  IF a < 0 THEN [r EXCEPT !.available = a, !.ready = FALSE]
        ELSE [r EXCEPT !.available = a]

\* Lines 245-258 with ready cleared as soon as the hint is used up
\* (available <= 0 in place of the available < 0 of line 255).
FionreadKnownClearsAtZero(r, n) ==
    LET a == r.available - n
    IN  IF a <= 0 THEN [r EXCEPT !.available = 0, !.ready = FALSE]
        ELSE [r EXCEPT !.available = a]

\* Lines 245-258: a known hint is decremented and clamped.
FionreadKnown(r, n) ==
    LET a == r.available - n
    IN  IF a < 0 THEN [r EXCEPT !.available = 0, !.ready = FALSE]
        ELSE [r EXCEPT !.available = a]

\* Lines 279-291: epoll with EPOLLRDHUP.
RdhupRead(r, n, size) ==
    IF n < size
    THEN Return([r EXCEPT !.available = 0,
                          !.ready = IF r.pending_eof THEN @ ELSE FALSE], n)
    ELSE Return(r, n)

\* Lines 295-299 with ready re-armed after a read that filled the request.
GenericReadSetsReady(r, n, size) ==
    IF n < size /\ ~Greedy THEN Return([r EXCEPT !.ready = FALSE], n)
    ELSE Return([r EXCEPT !.ready = TRUE], n)

\* Lines 295-299: every other event method.
GenericRead(r, n, size) ==
    IF n < size /\ ~Greedy THEN Return([r EXCEPT !.ready = FALSE], n)
    ELSE Return(r, n)

\* Lines 277-299.
AfterHint(r, n, size) ==
    IF UseRdhup THEN RdhupRead(r, n, size) ELSE GenericRead(r, n, size)

\* Lines 218-300: the outcomes of a read of n > 0 bytes.  The FIONREAD query
\* of line 265 (ngx_socket_nread) either fails or stores the socket's
\* pending byte count in rev->available.
ReadBytes(r, n, size) ==
    IF UseKqueue THEN { KqueueRead(r, n) }
    ELSE IF ~build.NGX_HAVE_FIONREAD THEN { AfterHint(r, n, size) }
    ELSE IF r.available >= 0 THEN { AfterHint(FionreadKnown(r, n), n, size) }
    ELSE IF n = size
    THEN { AfterLoop(r, ngx_connection_error(NGX_EINVAL)) }
         \cup { AfterHint([r EXCEPT !.available = a], n, size) : a \in 0..MaxAvail }
    ELSE { AfterHint(r, n, size) }

\* Lines 302-314 with EINTR handled like EAGAIN: no retry.
ReadFailedNoRetry(r, err) ==
    IF err = NGX_EINTR \/ err = NGX_EAGAIN THEN AfterLoop(r, NGX_AGAIN)
    ELSE AfterLoop(r, ngx_connection_error(err))

\* Lines 302-314: the read primitive failed with errno err.  EINTR repeats
\* the loop; EAGAIN leaves it with NGX_AGAIN; anything else is an error.
ReadFailed(r, err) ==
    IF err = NGX_EINTR THEN Proceed(r)
    ELSE IF err = NGX_EAGAIN THEN AfterLoop(r, NGX_AGAIN)
    ELSE AfterLoop(r, ngx_connection_error(err))

\* Lines 192-322: what one result of the read primitive leads to.
Interpret(r, got, size) ==
    IF got.n = 0 THEN { ReadZero(r) }
    ELSE IF got.n > 0 THEN ReadBytes(r, got.n, size)
    ELSE { ReadFailed(r, got.err) }

\* ---------------------------------------------------------------- actions

\* res before the first call of the read primitive.
NoRead == Ok(0, {}, {})

\* ngx_readv_chain is entered (lines 85-187): the readiness gate, then the
\* coalescing loop.
Call ==
    /\ pc = "idle"
    /\ \E lim \in 0..MaxConnLimit :
        LET g == PreRead(rev)
        IN  /\ limit' = lim
            /\ rev' = g.rev
            /\ ret' = IF g.returned THEN <<g.ret>> ELSE <<>>
            /\ reads' = 0
            /\ res' = NoRead
            /\ entry' = [rev |-> rev, chain |-> chain]
            /\ IF g.returned
               THEN pc' = "idle" /\ loop' = LoopInit
               ELSE pc' = "readv" /\ loop' = Coalesce(chain, lim)
    /\ UNCHANGED <<build, ngx_event_flags, ngx_use_epoll_rdhup, chain, heap>>

\* One pass of the do-while loop of lines 192-314 and, when the loop is
\* left, the code up to the return.  In the __KOS__ build the pass leaves
\* on the heap what kos_readv has not freed; MaxHeap bounds that count.
Readv ==
    /\ pc = "readv"
    /\ \E r \in ReadPrimitive(loop.vec) :
       \E o \in Interpret(rev, r, loop.size) :
        /\ ~o.returned => reads < MaxIntr
        /\ heap + Allocated(loop.vec, r) <= MaxHeap
        /\ heap' = heap + Allocated(loop.vec, r)
        /\ reads' = reads + 1
        /\ res' = r
        /\ rev' = o.rev
        /\ ret' = IF o.returned THEN <<o.ret>> ELSE <<>>
        /\ pc' = IF o.returned THEN "idle" ELSE "readv"
    /\ UNCHANGED <<build, ngx_event_flags, ngx_use_epoll_rdhup, chain, limit,
                   loop, entry>>

\* The event layer reports the connection readable: it sets ready and
\* refreshes the hint, the pending EOF and the kqueue error (kqueue reports
\* an error only together with EOF).  A connection that has seen eof or
\* error is closed by its owner and gets no more notifications.  The locals
\* of the invocation that returned are gone.
Notify ==
    /\ pc = "idle"
    /\ ~rev.eof /\ ~rev.error
    /\ \E a \in -1..MaxAvail, pe \in BOOLEAN, ke \in {0, NGX_ECONNRESET} :
        /\ ke # 0 => pe
        /\ rev' = [rev EXCEPT !.ready = TRUE, !.available = a,
                           !.pending_eof = pe, !.kq_errno = ke]
    /\ ret' = <<>>
    /\ limit' = 0
    /\ loop' = LoopInit
    /\ reads' = 0
    /\ res' = NoRead
    /\ entry' = [rev |-> rev', chain |-> chain]
    /\ UNCHANGED <<build, ngx_event_flags, ngx_use_epoll_rdhup, chain, pc, heap>>

Builds == [NGX_HAVE_KQUEUE : BOOLEAN, NGX_HAVE_FIONREAD : BOOLEAN,
           NGX_HAVE_EPOLLRDHUP : BOOLEAN, KOS : BOOLEAN]

EventFlags == {"NGX_USE_KQUEUE_EVENT", "NGX_USE_EPOLL_EVENT", "NGX_USE_GREEDY_EVENT"}

ConnChains == ChainsUpTo(MaxConnChain, MaxConnBuf)

\* The event methods.  A macro that is defined while its flag is clear leaves
\* every test of the file as it is without the macro, so the builds are taken
\* with the macro defined exactly when the event module that sets the flag is
\* the one in use; one event module is in use at a time.
Methods ==
    { m \in [build : Builds, flags : SUBSET EventFlags, rdhup : BOOLEAN] :
        /\ m.build.NGX_HAVE_KQUEUE <=> "NGX_USE_KQUEUE_EVENT" \in m.flags
        /\ m.build.NGX_HAVE_EPOLLRDHUP <=> "NGX_USE_EPOLL_EVENT" \in m.flags
        /\ m.rdhup => "NGX_USE_EPOLL_EVENT" \in m.flags
        /\ ~({"NGX_USE_KQUEUE_EVENT", "NGX_USE_EPOLL_EVENT"} \subseteq m.flags) }

RevInit == [ready |-> TRUE, eof |-> FALSE, error |-> FALSE,
            pending_eof |-> FALSE, available |-> -1, kq_errno |-> 0]

Init ==
    /\ \E m \in Methods :
        /\ build = m.build
        /\ ngx_event_flags = m.flags
        /\ ngx_use_epoll_rdhup = m.rdhup
    /\ rev = RevInit
    /\ chain \in ConnChains
    /\ limit = 0
    /\ loop = LoopInit
    /\ pc = "idle"
    /\ ret = <<>>
    /\ reads = 0
    /\ res = NoRead
    /\ entry = [rev |-> rev, chain |-> chain]
    /\ heap = 0

Next == Call \/ Readv \/ Notify

Spec == Init /\ [][Next]_vars

\* ------------------------------------------------- SpecCoalesce: the loop


NoBuild == [NGX_HAVE_KQUEUE |-> FALSE, NGX_HAVE_FIONREAD |-> FALSE,
            NGX_HAVE_EPOLLRDHUP |-> FALSE, KOS |-> FALSE]

InitCoalesce ==
    /\ build \in {NoBuild, [NoBuild EXCEPT !.KOS = TRUE]}
    /\ ngx_event_flags = {}
    /\ ngx_use_epoll_rdhup = FALSE
    /\ rev = RevInit
    /\ chain \in Chains
    /\ limit \in 0..MaxLimit
    /\ loop = LoopInit
    /\ pc = "coalesce"
    /\ ret = <<>>
    /\ reads = 0
    /\ res = NoRead
    /\ entry = [rev |-> rev, chain |-> chain]
    /\ heap = 0

\* One iteration of the while loop of lines 154-187.
LoopStep ==
    /\ pc = "coalesce"
    /\ loop.exit = "no"
    /\ loop' = CoalesceIter(chain, limit, loop)
    /\ pc' = IF loop'.exit = "no" THEN "coalesce" ELSE "readv"
    /\ UNCHANGED <<build, ngx_event_flags, ngx_use_epoll_rdhup, rev, chain,
                   limit, ret, reads, res, entry, heap>>

NextCoalesce == LoopStep \/ Readv

SpecCoalesce == InitCoalesce /\ [][NextCoalesce]_vars

\* ------------------------------------------------------------------ claims

\* The invocation has returned; ret[1] is what it returned.
Returned == pc = "idle" /\ ret # <<>>

\* A step that enters ngx_readv_chain, and a step of the event layer.
CallStep == pc = "idle" /\ (pc' = "readv" \/ ret' # <<>>)
NotifyStep == pc = "idle" /\ pc' = "idle" /\ ret' = <<>>

\* The conditions of lines 104-121 and 135-137 under which the gate answers
\* NGX_AGAIN.
GateWouldBlock(r) ==
    (UseKqueue \/ UseEpoll) /\ r.available = 0 /\ ~r.pending_eof

FromGate == Returned /\ reads = 0

\* C1: an invocation that the readiness gate ends with NGX_AGAIN (kqueue or
\* epoll, available = 0, pending_eof clear) never calls the read primitive
\* and leaves ready, eof, error, available, pending_eof and every buffer
\* marker as they were; calling again without a notification in between
\* gives the same outcome and the same state.
C1_GateWouldBlockFrame ==
    /\ [](Returned /\ GateWouldBlock(entry.rev)
            => /\ ret = <<NGX_AGAIN>>
               /\ reads = 0 /\ res = NoRead
               /\ rev = entry.rev
               /\ chain = entry.chain)
    /\ [](FromGate /\ ret = <<NGX_AGAIN>> => GateWouldBlock(entry.rev))
    /\ [][FromGate /\ ret = <<NGX_AGAIN>> /\ CallStep
            => /\ pc' = "idle" /\ ret' = ret /\ reads' = 0
               /\ rev' = rev /\ chain' = chain]_vars

C1_Witness ==
    /\ FromGate /\ ret = <<NGX_AGAIN>>
    /\ UseKqueue /\ rev.ready /\ rev.available = 0 /\ ~rev.pending_eof
    /\ SumFree(chain) > 0

\* C2: no step of ngx_readv_chain changes ready from 0 to 1; only the event
\* layer's notification sets it.
C2_ReadyOnlyCleared ==
    [][~rev.ready /\ rev'.ready => NotifyStep]_vars

C2_Witness ==
    /\ Returned /\ reads > 0
    /\ ~entry.rev.ready /\ ~rev.ready
    /\ ret[1] > 0 /\ ret[1] = loop.size

\* C3: a hint that is non-negative when the invocation begins is
\* non-negative when it returns, for every outcome and event method; where
\* the hint is decremented (kqueue, FIONREAD) a read of more bytes than the
\* hint leaves it 0.
C3_AvailableStaysNonNegative ==
    (Returned \/ pc = "readv") /\ entry.rev.available >= 0
        => /\ rev.available >= 0
           /\ ( ( /\ Returned /\ reads > 0
                  /\ ret[1] > entry.rev.available
                  /\ (UseKqueue \/ build.NGX_HAVE_FIONREAD) )
                => rev.available = 0 )

C3_Witness ==
    /\ Returned /\ reads > 0
    /\ ~UseKqueue /\ build.NGX_HAVE_FIONREAD
    /\ entry.rev.available > 0
    /\ ret[1] > entry.rev.available
    /\ rev.available = 0

\* A read of n bytes, 0 < n <= h, by an invocation that began with the known
\* hint h.
KnownHintRead ==
    /\ Returned /\ reads > 0
    /\ entry.rev.available >= 0
    /\ 0 < ret[1] /\ ret[1] <= entry.rev.available

\* C4 as claimed: after a read of n bytes, 0 < n <= h, from the known hint h
\* the hint is h - n under every event method, short read or not.
C4_AsClaimed ==
    KnownHintRead => rev.available = entry.rev.available - ret[1]

\* C4: after a read of n bytes, 0 < n <= h, from the known hint h the hint
\* is h - n under kqueue and, without kqueue, in a build with FIONREAD,
\* except that under epoll with EPOLLRDHUP a short read (n < size) leaves
\* it 0; a build with neither kqueue nor FIONREAD leaves the hint h.  It
\* is never negative.
C4_HintAfterRead ==
    KnownHintRead
        => /\ rev.available >= 0
           /\ rev.available =
                IF UseKqueue THEN entry.rev.available - ret[1]
                ELSE IF UseRdhup /\ ret[1] < loop.size THEN 0
                ELSE IF build.NGX_HAVE_FIONREAD
                     THEN entry.rev.available - ret[1]
                ELSE entry.rev.available

C4_Witness ==
    /\ KnownHintRead
    /\ ~UseKqueue /\ ~UseRdhup /\ build.NGX_HAVE_FIONREAD
    /\ ret[1] < loop.size
    /\ ret[1] < entry.rev.available
    /\ rev.available = entry.rev.available - ret[1]

\* The latest call of the read primitive failed with errno e.
FailedWith(r, e) == r.n < 0 /\ r.err = e

\* C10: an attempt that fails with EINTR is followed by another attempt with
\* the same entries and changes nothing else, and the invocation never
\* returns on it: the outcome is that of the first attempt that is not
\* interrupted (n > 0 bytes after an EINTR are returned as n).  EAGAIN ends
\* the invocation with NGX_AGAIN; any other error sets error, clears ready
\* and ends it with NGX_ERROR.
C10_ReadErrors ==
    /\ [][pc = "readv" /\ FailedWith(res', NGX_EINTR)
            => /\ pc' = "readv" /\ ret' = <<>>
               /\ reads' = reads + 1
               /\ loop' = loop /\ rev' = rev /\ chain' = chain]_vars
    /\ [][pc = "readv" /\ FailedWith(res', NGX_EAGAIN)
            => pc' = "idle" /\ ret' = <<NGX_AGAIN>>]_vars
    /\ [](Returned /\ reads > 0
            => /\ ~FailedWith(res, NGX_EINTR)
               /\ res.n < 0 /\ res.err # NGX_EAGAIN
                    => ret = <<NGX_ERROR>> /\ rev.error /\ ~rev.ready
               /\ res.n > 0
                    => \/ ret = <<res.n>>
                       \/ /\ ret = <<NGX_ERROR>>
                          /\ build.NGX_HAVE_FIONREAD /\ ~UseKqueue
                          /\ entry.rev.available < 0
                          /\ res.n = loop.size)
    /\ [](Returned /\ reads > 1 /\ res.n > 0 /\ entry.rev.available >= 0
            => ret = <<res.n>>)

C10_Witness ==
    /\ Returned /\ reads = 2
    /\ res.n > 0 /\ ret = <<res.n>>
    /\ rev = entry.rev

\* ---------------------------------------------- claims about the coalescer

Min(a, b) == IF a < b THEN a ELSE b
Max(a, b) == IF a > b THEN a ELSE b

\* The free bytes of the first k buffers that the limit lets through.
Gathered(k) ==
    LET free == SumFree(SubSeq(chain, 1, k))
    IN  IF limit = 0 THEN free ELSE Min(limit, free)

\* Buffers 1 .. Included are the ones the loop took into the entries.
Included == loop.pos - 1

LoopExited == loop.exit # "no"

\* The addresses of the free region of buffer i that a read of n bytes
\* into the gathered buffers fills, in chain order.
Filled(i, n) ==
    IF i > Included THEN 0
    ELSE Min(Gathered(i) - Gathered(i - 1), Max(0, n - Gathered(i - 1)))

FilledAddrs(i, n) == { entry.chain[i].last + k : k \in 0..(Filled(i, n) - 1) }

\* C5: with a limit > 0 the lengths of the entries add up to size, which
\* never exceeds the limit, at every iteration and at loop exit: it is the
\* free space of the buffers taken so far, cut to the limit.  So a read
\* never returns more than limit bytes.
C5_SizeWithinLimit ==
    limit > 0
        => /\ SumLen(loop.vec) = loop.size
           /\ loop.size <= limit
           /\ loop.size = Min(limit, SumFree(SubSeq(chain, 1, Included)))
           /\ Returned /\ ret[1] > 0 => ret[1] <= limit

C5_Witness ==
    /\ limit > 0 /\ LoopExited
    /\ Len(loop.vec) = 2
    /\ SumFree(SubSeq(chain, 1, Included)) > limit
    /\ Returned /\ ret = <<limit>>

\* The limit is smaller than the free space of the chain, and the loop has
\* been left.
LimitBelowFree == limit > 0 /\ limit < SumFree(chain) /\ LoopExited

\* C6 as claimed: for every chain whose free space exceeds the limit > 0 the
\* requested size is exactly the limit, also when the chain has more
\* non-adjacent buffers than the vector has entries.
C6_AsClaimed ==
    LimitBelowFree => loop.size = limit

\* C6: for a chain whose free space exceeds the limit > 0 the requested
\* size is exactly the limit, the last buffer taken being the one that
\* reaches it, unless the loop stops because the vector is full at a
\* non-adjacent buffer: then the size is the free space of the buffers
\* before that buffer, which is below the limit.  In both cases the chain
\* position is the first buffer that was not taken.
C6_LimitReached ==
    LimitBelowFree
        => /\ SumLen(loop.vec) = loop.size
           /\ loop.size = Gathered(Included)
           /\ loop.exit # "full"
                => /\ loop.size = limit
                   /\ Included >= 1
                   /\ SumFree(SubSeq(chain, 1, Included - 1)) < limit
           /\ loop.exit = "full"
                => /\ loop.size < limit
                   /\ loop.size = SumFree(SubSeq(chain, 1, Included))
                   /\ Len(loop.vec) = NGX_IOVS_PREALLOCATE
                   /\ Included < Len(chain)

C6_Witness ==
    /\ LimitBelowFree /\ loop.exit = "limit"
    /\ Len(chain) > NGX_IOVS_PREALLOCATE
    /\ Len(loop.vec) = NGX_IOVS_PREALLOCATE
    /\ SumFree(SubSeq(chain, 1, Included)) > limit
    /\ loop.size = limit

\* Every buffer's free region starts where the previous buffer's ends.
Contiguous(ch) == \A i \in 2..Len(ch) : ch[i - 1].end = ch[i].last

\* C7: a non-empty chain of contiguous free regions, read without limit,
\* gives exactly one entry, based at the first buffer's last marker and as
\* long as all the free regions together, however many buffers there are.
C7_ContiguousOneEntry ==
    Len(chain) >= 1 /\ Contiguous(chain) /\ limit = 0 /\ LoopExited
        => /\ loop.exit = "end"
           /\ loop.vec = <<[iov_base |-> chain[1].last,
                            iov_len |-> SumFree(chain)]>>

C7_Witness ==
    /\ Len(chain) > NGX_IOVS_PREALLOCATE /\ Contiguous(chain) /\ limit = 0
    /\ \A i \in 1..Len(chain) : chain[i].end > chain[i].last
    /\ LoopExited /\ Len(loop.vec) = 1

\* No buffer's free region starts where the previous buffer's ends.
Scattered(ch) == \A i \in 2..Len(ch) : ch[i - 1].end # ch[i].last

\* C8: the vector never holds more than NGX_IOVS_PREALLOCATE entries.  When
\* it is full and the next buffer is not adjacent the loop stops at that
\* buffer: the entries and the size cover the buffers before it only, and
\* so does what the read stores.  With one non-adjacent buffer more than
\* the vector has entries, the entries are the free regions of all the
\* buffers but the last, and the position is the last buffer.
C8_VectorCapacity ==
    /\ Len(loop.vec) <= NGX_IOVS_PREALLOCATE
    /\ loop.exit = "full"
        => /\ Len(loop.vec) = NGX_IOVS_PREALLOCATE
           /\ loop.pos <= Len(chain)
           /\ chain[loop.pos].last # loop.prev
           /\ loop.size = Gathered(Included)
           /\ SumLen(loop.vec) = loop.size
           /\ \A e \in Range(loop.vec) :
                \E i \in 1..Included : chain[i].last <= e.iov_base
                                       /\ e.iov_base + e.iov_len <= chain[i].end
           /\ Returned => \A a \in res.data \cup res.zero :
                            \E i \in 1..Included : chain[i].last <= a /\ a < chain[i].end
    /\ (Len(chain) = NGX_IOVS_PREALLOCATE + 1
            /\ Scattered(chain) /\ limit = 0 /\ LoopExited)
        => /\ loop.exit = "full"
           /\ loop.pos = Len(chain)
           /\ loop.vec = [i \in 1..NGX_IOVS_PREALLOCATE |->
                            [iov_base |-> chain[i].last,
                             iov_len |-> chain[i].end - chain[i].last]]

C8_Witness ==
    /\ Len(chain) = NGX_IOVS_PREALLOCATE + 1
    /\ Scattered(chain) /\ limit = 0
    /\ \A i \in 1..Len(chain) : chain[i].end > chain[i].last
    /\ loop.exit = "full" /\ loop.pos = Len(chain)
    /\ Returned /\ ret = <<loop.size>>

\* A read that returned n bytes, 0 < n < size.
ShortRead == Returned /\ reads > 0 /\ 0 < ret[1] /\ ret[1] < loop.size

GateEof(r) == UseKqueue /\ r.available = 0 /\ r.pending_eof

\* C11: under kqueue an invocation that starts with available = 0 and
\* pending_eof set never calls the read primitive, clears ready and sets
\* eof; with kq_errno non-zero it also sets error and returns NGX_ERROR,
\* otherwise it returns 0 and leaves error as it was.  Nothing else of the
\* event or of the chain changes.
C11_GateEof ==
    /\ pc = "readv" => ~GateEof(entry.rev)
    /\ (Returned /\ GateEof(entry.rev))
        => /\ reads = 0 /\ res = NoRead
           /\ ~rev.ready /\ rev.eof
           /\ chain = entry.chain
           /\ IF entry.rev.kq_errno # 0
              THEN /\ ret = <<NGX_ERROR>>
                   /\ rev = [entry.rev EXCEPT !.ready = FALSE, !.eof = TRUE,
                                              !.error = TRUE]
              ELSE /\ ret = <<0>>
                   /\ rev.error = entry.rev.error
                   /\ rev = [entry.rev EXCEPT !.ready = FALSE, !.eof = TRUE]

C11_Witness ==
    /\ Returned /\ GateEof(entry.rev)
    /\ entry.rev.ready /\ ~entry.rev.eof /\ ~entry.rev.error
    /\ entry.rev.kq_errno # 0
    /\ ret = <<NGX_ERROR>> /\ rev.error /\ rev.eof /\ ~rev.ready
    /\ SumFree(chain) > 0

\* Scenario C: hint 0, pending EOF, no error code.
C11_WitnessScenarioC ==
    /\ Returned /\ GateEof(entry.rev)
    /\ entry.rev.ready /\ ~entry.rev.eof
    /\ entry.rev.kq_errno = 0
    /\ ret = <<0>> /\ rev.eof /\ ~rev.ready /\ ~rev.error

\* The invocation returned after the read primitive reported 0 bytes.
ReadReturnedZero == Returned /\ reads > 0 /\ res.n = 0

\* C12: when the read primitive returns 0 the invocation clears ready, sets
\* eof and returns 0 without touching error; under kqueue it also sets the
\* hint to 0, whatever it was, and under every other event method it leaves
\* the hint as it was.  pending_eof and kq_errno are left alone.
C12_ReadZero ==
    ReadReturnedZero
        => /\ ret = <<0>>
           /\ ~rev.ready /\ rev.eof
           /\ rev.error = entry.rev.error
           /\ rev.available = IF UseKqueue THEN 0 ELSE entry.rev.available
           /\ rev = [entry.rev EXCEPT !.ready = FALSE, !.eof = TRUE,
                                      !.available = rev.available]

C12_Witness ==
    /\ ReadReturnedZero
    /\ UseKqueue /\ entry.rev.available > 0 /\ rev.available = 0
    /\ entry.rev.ready /\ ~rev.ready /\ rev.eof /\ ~rev.error
    /\ loop.size > 0

\* A read of 0 bytes under another event method keeps a non-zero hint.
C12_WitnessOther ==
    /\ ReadReturnedZero
    /\ ~UseKqueue /\ entry.rev.available > 0
    /\ rev.available = entry.rev.available
    /\ rev.eof /\ ~rev.ready

\* The invocation returned after the read primitive stored n > 0 bytes.
ReadReturnedBytes == Returned /\ reads > 0 /\ res.n > 0

\* C13: under kqueue a read of n > 0 bytes from the hint h returns n at
\* once: the hint becomes h - n, or 0 when h - n <= 0, and ready is cleared
\* exactly when h - n <= 0 and pending_eof is clear; with pending_eof set
\* ready stays as it was.  Neither the FIONREAD query, nor the short-read
\* test of the other event methods, nor the code after the loop changes
\* anything.
C13_KqueueRead ==
    (ReadReturnedBytes /\ UseKqueue)
        => LET h == entry.rev.available
               n == res.n
           IN  /\ ret = <<n>>
               /\ rev.available = Max(h - n, 0)
               /\ rev.ready = IF h - n <= 0 /\ ~entry.rev.pending_eof
                              THEN FALSE ELSE entry.rev.ready
               /\ rev = [entry.rev EXCEPT !.available = rev.available,
                                          !.ready = rev.ready]

\* Scenario A: the read takes exactly the hinted bytes, no EOF is pending.
C13_Witness ==
    /\ ReadReturnedBytes /\ UseKqueue
    /\ entry.rev.available = res.n /\ ~entry.rev.pending_eof
    /\ entry.rev.ready /\ ~rev.ready /\ rev.available = 0
    /\ ret = <<res.n>>

\* A short read that leaves part of the hint keeps ready, also in a build
\* with FIONREAD.
C13_WitnessShort ==
    /\ ReadReturnedBytes /\ UseKqueue /\ build.NGX_HAVE_FIONREAD /\ ~Greedy
    /\ res.n < loop.size /\ res.n < entry.rev.available
    /\ entry.rev.ready /\ rev.ready

\* A pending EOF keeps ready although the hint is used up.
C13_WitnessPendingEof ==
    /\ ReadReturnedBytes /\ UseKqueue
    /\ entry.rev.pending_eof /\ res.n >= entry.rev.available
    /\ entry.rev.ready /\ rev.ready /\ rev.available = 0

\* A read of n > 0 bytes by an invocation that began with a known hint in a
\* build with FIONREAD, kqueue not in use.
FionreadKnownRead ==
    /\ ReadReturnedBytes
    /\ ~UseKqueue /\ build.NGX_HAVE_FIONREAD
    /\ entry.rev.available >= 0

\* C14 as claimed: the hint becomes max(h - n, 0) and ready is cleared
\* whenever h - n <= 0, also when n = h and n = size.
C14_AsClaimed ==
    FionreadKnownRead
        => /\ rev.available = Max(entry.rev.available - res.n, 0)
           /\ entry.rev.available - res.n <= 0 => ~rev.ready

\* C14: with FIONREAD and a known hint h a read of n > 0 bytes returns n and
\* leaves the hint max(h - n, 0), or 0 after a short read under epoll with
\* EPOLLRDHUP.  Ready is cleared when h - n < 0; when h - n >= 0 it is
\* cleared only by the short-read test of the event method (n < size, and
\* pending_eof clear under EPOLLRDHUP, not greedy otherwise) and is left as
\* it was by a read with n = h and n = size.
C14_FionreadKnownHint ==
    FionreadKnownRead
        => LET h == entry.rev.available
               n == res.n
               short == n < loop.size
           IN  /\ ret = <<n>>
               /\ rev.available = IF UseRdhup /\ short THEN 0
                                  ELSE Max(h - n, 0)
               /\ rev.ready =
                    IF h - n < 0 THEN FALSE
                    ELSE IF UseRdhup
                         THEN IF short /\ ~entry.rev.pending_eof
                              THEN FALSE ELSE entry.rev.ready
                    ELSE IF short /\ ~Greedy THEN FALSE
                    ELSE entry.rev.ready
               /\ rev = [entry.rev EXCEPT !.available = rev.available,
                                          !.ready = rev.ready]

\* The read takes exactly the hinted bytes and fills the request: ready stays.
C14_Witness ==
    /\ FionreadKnownRead
    /\ res.n = entry.rev.available /\ res.n = loop.size
    /\ entry.rev.ready /\ rev.ready /\ rev.available = 0
    /\ ret = <<res.n>>

\* The read takes more than the hinted bytes: ready is cleared.
C14_WitnessBeyondHint ==
    /\ FionreadKnownRead
    /\ res.n > entry.rev.available /\ res.n = loop.size
    /\ entry.rev.ready /\ ~rev.ready /\ rev.available = 0

\* An invocation under epoll is past its gate: it has returned or is about
\* to call the read primitive.
EpollInvoked == UseEpoll /\ (Returned \/ pc = "readv")

\* C15 as claimed: under epoll every invocation that starts with
\* pending_eof clear returns NGX_AGAIN without a read, whatever the hint.
C15_AsClaimed ==
    (EpollInvoked /\ ~entry.rev.pending_eof)
        => Returned /\ ret = <<NGX_AGAIN>> /\ reads = 0

\* C15: under epoll an invocation that starts with pending_eof clear and the
\* hint 0 returns NGX_AGAIN without calling the read primitive and changes
\* nothing; with a hint that is positive or unknown (-1), or with
\* pending_eof set, the gate lets the invocation go on to the read.
C15_EpollGate ==
    EpollInvoked
        => IF entry.rev.available = 0 /\ ~entry.rev.pending_eof
           THEN /\ Returned /\ ret = <<NGX_AGAIN>>
                /\ reads = 0 /\ res = NoRead
                /\ rev = entry.rev /\ chain = entry.chain
           ELSE pc = "readv" \/ reads > 0

C15_Witness ==
    /\ UseEpoll /\ FromGate /\ ret = <<NGX_AGAIN>>
    /\ entry.rev.available = 0 /\ ~entry.rev.pending_eof
    /\ rev.ready /\ SumFree(chain) > 0

\* With pending_eof clear and the hint unknown or positive the read is made.
C15_WitnessRead ==
    /\ UseEpoll /\ ReadReturnedBytes
    /\ ~entry.rev.pending_eof /\ entry.rev.available # 0
    /\ ret = <<res.n>>

\* The loop is at a buffer that does not start where the previous one
\* ended, with the limit not gathered and a free slot in the vector.
AtNewRegion ==
    /\ pc = "coalesce" /\ loop.exit = "no"
    /\ loop.pos <= Len(chain)
    /\ (limit = 0 \/ loop.size < limit)
    /\ chain[loop.pos].last # loop.prev
    /\ Len(loop.vec) < NGX_IOVS_PREALLOCATE

\* C16 as claimed: every entry the loop pushes has a length > 0 when it is
\* pushed.
C16_AsClaimed ==
    [][Len(loop'.vec) > Len(loop.vec)
          => loop'.vec[Len(loop'.vec)].iov_len > 0]_vars

\* C16: the loop pushes an entry for every buffer that does not start where
\* the previous one ended, while the limit is not gathered and the vector
\* has a free slot, whatever the length of the free region: the entry is
\* based at the buffer's last marker and its length is the free region cut
\* to the limit, which is 0 exactly when the buffer has no free space
\* (last = end).  Nothing else adds an entry.
C16_PushAnyLength ==
    [][ /\ AtNewRegion
          => /\ Len(loop'.vec) = Len(loop.vec) + 1
             /\ LET b == chain[loop.pos]
                    e == loop'.vec[Len(loop'.vec)]
                IN  /\ e.iov_base = b.last
                    /\ e.iov_len = IF limit = 0 THEN b.end - b.last
                                   ELSE Min(b.end - b.last, limit - loop.size)
                    /\ e.iov_len = 0 <=> b.last = b.end
             /\ loop'.size = loop.size + loop'.vec[Len(loop'.vec)].iov_len
             /\ loop'.prev = chain[loop.pos].end
        /\ Len(loop'.vec) # Len(loop.vec) => AtNewRegion ]_vars

\* A buffer without free space that is not adjacent to its predecessor has
\* got an entry of length 0.
C16_Witness ==
    /\ LoopExited
    /\ Len(chain) = 2 /\ Len(loop.vec) = 2
    /\ chain[1].end > chain[1].last
    /\ chain[2].last = chain[2].end
    /\ chain[2].last # chain[1].end
    /\ loop.vec[2] = [iov_base |-> chain[2].last, iov_len |-> 0]

\* The invocation returned after the read primitive failed with EAGAIN.
ReadReturnedEagain == Returned /\ reads > 0 /\ res = Fail(NGX_EAGAIN)

\* C17: an invocation whose read fails with EAGAIN returns NGX_AGAIN, clears
\* ready and leaves eof, error, available and pending_eof as they were; an
\* NGX_AGAIN from the readiness gate leaves ready as it was too, and these
\* are the only two sources of NGX_AGAIN.  Once ready is clear, no step of a
\* further invocation sets it: it stays clear until the event layer's
\* notification.
C17_EagainClearsReady ==
    /\ [](ReadReturnedEagain
            => /\ ret = <<NGX_AGAIN>>
               /\ rev = [entry.rev EXCEPT !.ready = FALSE])
    /\ []((Returned /\ ret = <<NGX_AGAIN>>)
            => IF reads = 0 THEN rev = entry.rev
               ELSE res = Fail(NGX_EAGAIN) /\ ~rev.ready)
    /\ [][(~rev.ready /\ (CallStep \/ pc = "readv")) => ~rev'.ready]_vars

C17_Witness ==
    /\ ReadReturnedEagain /\ ret = <<NGX_AGAIN>>
    /\ entry.rev.ready /\ ~rev.ready
    /\ entry.rev.available > 0 /\ rev.available = entry.rev.available
    /\ entry.rev.pending_eof /\ rev.pending_eof
    /\ ~rev.eof /\ ~rev.error

\* A further invocation after ready was cleared reads bytes and returns
\* with ready still clear.
C17_WitnessFurtherCall ==
    /\ ReadReturnedBytes /\ ret = <<loop.size>>
    /\ ~entry.rev.ready /\ ~rev.ready
    /\ ~UseKqueue /\ ~build.NGX_HAVE_FIONREAD

\* Under kqueue with an EOF pending, the invocation has read n > 0 bytes,
\* at least as many as the hint announced.
ReadBeforePendingEof ==
    /\ ReadReturnedBytes /\ UseKqueue
    /\ entry.rev.pending_eof
    /\ res.n >= entry.rev.available

\* C18: under kqueue with pending_eof set, an invocation that reads n > 0
\* bytes, n >= hint, returns n with the hint 0 and ready, eof and error as
\* they were; the next invocation, when no notification comes in between,
\* ends at the gate without a read, with eof set and ready cleared, and
\* returns 0, or NGX_ERROR with error set when kq_errno is non-zero.
C18_DataBeforePendingEof ==
    /\ [](ReadBeforePendingEof
            => /\ ret = <<res.n>>
               /\ rev = [entry.rev EXCEPT !.available = 0]
               /\ ~rev.eof)
    /\ [][(ReadBeforePendingEof /\ CallStep)
            => /\ pc' = "idle" /\ reads' = 0 /\ res' = NoRead
               /\ chain' = chain
               /\ ret' = IF rev.kq_errno # 0 THEN <<NGX_ERROR>> ELSE <<0>>
               /\ rev' = [rev EXCEPT !.ready = FALSE, !.eof = TRUE,
                                     !.error = (rev.kq_errno # 0) \/ @]]_vars

C18_Witness ==
    /\ ReadBeforePendingEof
    /\ entry.rev.available > 0 /\ res.n = entry.rev.available
    /\ entry.rev.ready /\ rev.ready /\ rev.available = 0
    /\ ~rev.eof /\ ~rev.error /\ rev.kq_errno # 0
    /\ ret = <<res.n>>

\* C19: an invocation sets eof only at the pending-EOF gate or when the read
\* primitive reports end of stream for a request of size > 0; a call on a
\* chain without free space (size 0, the read primitive returns 0) leaves
\* eof and ready as they were.
C19_EofOnlyOnClose ==
    /\ (Returned /\ rev.eof /\ ~entry.rev.eof)
        => \/ reads = 0 /\ GateEof(entry.rev)
           \/ reads > 0 /\ res.n = 0 /\ loop.size > 0
    /\ (Returned /\ reads > 0 /\ res.n = 0 /\ loop.size = 0)
        => rev.eof = entry.rev.eof /\ rev.ready = entry.rev.ready

\* The call on a chain of one buffer without free space in the __KOS__
\* build: kos_readv returns 0 without a read, and the open connection is
\* left with eof set and ready cleared.
C19_FullChainReportsEof ==
    /\ build.KOS
    /\ Returned /\ reads = 1 /\ res = Ok(0, {}, {})
    /\ Len(chain) = 1 /\ chain[1].last = chain[1].end
    /\ loop.vec = <<[iov_base |-> chain[1].last, iov_len |-> 0]>>
    /\ loop.size = 0
    /\ entry.rev.ready /\ ~entry.rev.eof /\ ~entry.rev.pending_eof
    /\ ret = <<0>> /\ rev.eof /\ ~rev.ready

\* C20: kos_readv frees the temporary buffer it allocates on every return
\* path: whatever calls have been made, also calls whose read failed, no
\* temporary buffer of kos_readv is left allocated.
C20_TempBufferFreed == heap = 0

\* A call of kos_readv whose read() failed with EAGAIN has returned with its
\* temporary buffer still allocated.
C20_FailedReadLeaks ==
    /\ build.KOS
    /\ Returned /\ reads = 1 /\ res = Fail(NGX_EAGAIN)
    /\ loop.size > 0
    /\ ret = <<NGX_AGAIN>>
    /\ heap = 1

====
